---- MODULE Spec2Model ----
(***************************************************************************)
(* State-machine model of the media pipeline drivers of montage:           *)
(*   - ProjectPlayer (src/src/player.rs): preview player, frame sink       *)
(*   - VideoPlayer   (src/src/video.rs):  single-file preview player       *)
(*   - export loops  (src/src/export.rs): run_pipeline and                 *)
(*                                         export_multiple_clips           *)
(*   - MainView      (src/src/main.rs):   start_export, load_video         *)
(*   - Project       (src/src/project.rs, src/src/agent.rs): add_clip,     *)
(*                                         MoveClip                        *)
(* GStreamer itself is the environment.  What is assumed of it:            *)
(*   - set_state(Null) is synchronous: it returns only once the streaming  *)
(*     thread has left the appsink callback, and a pipeline in Null        *)
(*     delivers no further sample;                                         *)
(*   - new_sample fires only while the pipeline is Playing;                *)
(*   - a pipeline posts EOS / Error on its bus by itself; a flushing seek  *)
(*     clears the EOS condition;                                           *)
(*   - set_state(Null) does not fail, and bus.iter_timed(NONE) does not    *)
(*     return without a message;                                           *)
(*   - a change of state that fails leaves the pipeline in the last state  *)
(*     it had reached (Null or Ready), and a pipeline dropped outside Null *)
(*     is not disposed of;                                                 *)
(*   - the wait for the preroll may time out, the duration query may give  *)
(*     no answer, and a position query answers within the graph's stream;  *)
(*   - uridecodebin exposes one pad per stream of its file, and the        *)
(*     pad-added handlers of different decoders run in any order;          *)
(*   - a flow error returned by the appsink callback stops the streaming   *)
(*     and is posted as an Error on the bus.                               *)
(* Of gpui: a task given to cx.spawn runs on the main thread, and the      *)
(* MainView outlives its export worker.                                    *)
(* Times are counted in ticks, NsPerSec ticks to the second (the code      *)
(* counts nanoseconds), so that products stay inside TLC's integers.       *)
(* A normalized position p is the rational p / PosDen.                     *)
(***************************************************************************)
EXTENDS Integers, Sequences, FiniteSets, TLC

\* ---------------------------------------------------------------- bounds
MaxGraphs == 2
NumSamples == 2
PosDen == 2
NsPerSec == 4
NumClips == 2
\* path prompts of start_export that may be open at once
MaxPrompts == 2
\* clips in a project, and milliseconds the clock runs for
MaxClips == 3
MaxMillis == 1
\* paths the user opens, and calls that open a path opened before
NumPaths == 11
MaxReopens == 2
\* clips of a project put through JSON
MaxSavedClips == 2

Graphs == 1..MaxGraphs
Samples == 1..NumSamples
\* numerators of the positions passed to seek: -1.0, 0, 1/PosDen, 1.0, 2.0
Positions == {0 - PosDen, 0, 1, PosDen, 2 * PosDen}
\* durations a pipeline may report: zero, half a second, two seconds and a bit
Durations == {0, NsPerSec \div 2, 2 * NsPerSec + 1}
NoDuration == 0 - 1
\* what a graph shows while it is built: the length of its stream (ticks),
\* whether the preroll completed within the timeout, whether the duration
\* query answered
Probes == [len : Durations, prerolled : BOOLEAN, answered : BOOLEAN]
\* the graphs whose preroll completed and made the duration known
PrerolledProbes == {b \in Probes : b.prerolled /\ b.answered}
\* no graph is held
NoProbe == [len |-> 0, prerolled |-> FALSE, answered |-> FALSE]
NoSeek == 0 - 1

VARIABLES
  \* ProjectPlayer fields
  pipeline,        \* Option<gst::Pipeline>: 0 is None, g > 0 the graph held
  state,           \* PlayerState
  duration,        \* cached duration (ticks)
  probe,           \* what the held graph answered when it was built
  current_frame,   \* the Arc<Mutex<Option<Frame>>> slot
  lock,            \* holder of the slot's mutex: "free", "cb" or "ui"
  \* the GStreamer side
  gst,             \* state of each graph built so far
  nullCalls,       \* how often set_state(Null) was called on each graph
  nGraphs,         \* graphs built so far
  bus,             \* terminal condition of the held graph: none, eos, error
  \* the streaming thread inside the new_sample callback
  cb_pc, cb_frame,
  \* the caller's (UI) thread
  ui_pc, call, op, snap,
  \* history of the frame sink
  lastStored, unread, overwrote,
  \* VideoPlayer fields, its graphs, the last call on it and what the file
  \* of the held graph showed when it was loaded
  v_pipeline, v_duration, v_dims, v_gst, v_nGraphs, v_op, v_source,
  \* one export call: where it is, which loop runs, the pipeline's state,
  \* the message just handled, what the call returned, the last value given
  \* to the progress callback, the kinds of message the loop has passed over
  e_pc, e_fn, e_gst, e_msg, e_ret, e_progress, e_seen, e_tool,
  \* the graph of one multi-clip export: where its construction is, the
  \* decoder of each clip (the streams of its file and how many of them it
  \* has exposed as pads), and the sink pads requested on each concat in the
  \* order of the requests (the clip of the pad given to it, whether the link
  \* was made), and whether the project exported has a separate audio track
  l_pc, decoder, video_concat, audio_concat, project_audio,
  \* MainView: what the main (UI) thread is doing, the path prompts of
  \* start_export not yet answered, the export worker thread, what join()
  \* gave for the last worker, the message and the result lines shown to the
  \* user, and the outcome of the last load_video
  main_pc, prompts, worker, join_result, last_agent_message,
  last_agent_results, video_player,
  \* Project: the clip list (id and description of each clip), the system
  \* clock in milliseconds since the epoch, and what apply_modifications
  \* returned last
  project_clips, clock, results,
  \* AppConfig: the last project, the recent projects, whether the file on disk
  \* holds them, and how many paths have been opened so far and how many
  \* calls have opened a path again
  last_project, recent_projects, config_saved, opened, reopens,
  \* One round trip of a Project through JSON: where it is, the project, what
  \* to_string_pretty gave, and what from_str gave
  rt_pc, rt_project, rt_json, rt_loaded,
  \* One decoder of a graph and its pad-added handler: whether the process
  \* runs, which graph the decoder is in, the kinds of the streams of its file,
  \* which of them it has exposed as pads, the links made (pad and target),
  \* the sink pads requested on each concat, and the pads whose request or
  \* link failed
  g_pc, g_graph, g_streams, g_exposed, g_links, g_requested, g_failed,
  \* Timeline: playing, the position in steps of 0.05 s, the playback timers
  \* alive that have yet to fire in the running interval of 50 ms and those that
  \* have fired in it or were started in it, and how many steps the position
  \* has advanced in it
  t_playing, t_position, t_waiting, t_fired, t_advanced

pvars == <<pipeline, state, duration, probe, current_frame, lock, gst, nullCalls,
           nGraphs, bus, cb_pc, cb_frame, ui_pc, call, op, snap,
           lastStored, unread, overwrote>>

vvars == <<v_pipeline, v_duration, v_dims, v_gst, v_nGraphs, v_op, v_source>>

evars == <<e_pc, e_fn, e_gst, e_msg, e_ret, e_progress, e_seen, e_tool>>

lvars == <<l_pc, decoder, video_concat, audio_concat, project_audio>>

uvars == <<main_pc, prompts, worker, join_result, last_agent_message,
           last_agent_results, video_player>>

jvars == <<project_clips, clock, results>>

cvars == <<last_project, recent_projects, config_saved, opened, reopens>>

rvars == <<rt_pc, rt_project, rt_json, rt_loaded>>

gvars == <<g_pc, g_graph, g_streams, g_exposed, g_links, g_requested, g_failed>>

tvars == <<t_playing, t_position, t_waiting, t_fired, t_advanced>>

vars == <<pvars, vvars, evars, lvars, uvars, jvars, cvars, rvars, gvars, tvars>>

\* ------------------------------------------------------------ data model
PlayerState == {"Stopped", "Paused", "Playing"}

NoneFrame == [some |-> FALSE, data |-> 0, width |-> 0, height |-> 0]

\* Frame { data, width, height } built from sample s (player.rs 214-218)
FrameOf(s) == [some |-> TRUE, data |-> s, width |-> s, height |-> s]

\* record of the last call completed on the caller's thread: its name and
\* argument (of a load: the number of video clips in the project, 1 for any
\* number above 0), the position it handed to seek_simple (NoSeek: none), what it
\* returned, the execution state it was called in and whether the call
\* before it was a stop
Op(name, arg, issued, ret) ==
  [name |-> name, arg |-> arg, issued |-> issued, ret |-> ret,
   pre |-> state, afterStop |-> (op.name = "stop")]

\* f64 -> u64 `as` cast: saturating, negative values give 0
AsU64(x) == IF x < 0 THEN 0 ELSE x

\* f64::clamp(0.0, 1.0) on the numerator of p / PosDen
Clamp01(p) == IF p < 0 THEN 0 ELSE IF p > PosDen THEN PosDen ELSE p

\* ProjectPlayer::seek: (position.clamp(0.0, 1.0) * duration * 1e9) as u64
SeekPositionNs(p, d) == AsU64((Clamp01(p) * d) \div PosDen)

\* a slot without mutual exclusion
TryLock_none(who) == TRUE

\* Mutex::lock on the frame slot
TryLock(who) == lock = "free"

\* ----------------------------------------------------------------- Init
PlayerInit ==
  /\ pipeline = 0
  /\ state = "Stopped"
  /\ duration = 0
  /\ probe = NoProbe
  /\ current_frame = NoneFrame
  /\ lock = "free"
  /\ gst = [g \in Graphs |-> "Void"]
  /\ nullCalls = [g \in Graphs |-> 0]
  /\ nGraphs = 0
  /\ bus = "none"
  /\ cb_pc = "idle"
  /\ cb_frame = 0
  /\ ui_pc = "idle"
  /\ call = "none"
  /\ op = [name |-> "new", arg |-> 0, issued |-> NoSeek, ret |-> "Unit",
           pre |-> "Stopped", afterStop |-> FALSE]
  /\ snap = NoneFrame
  /\ lastStored = 0
  /\ unread = FALSE
  /\ overwrote = FALSE

\* VideoPlayer::new (video.rs 52-63)
VideoInit ==
  /\ v_pipeline = 0
  /\ v_duration = 0
  /\ v_dims = <<1280, 720>>
  /\ v_gst = [g \in Graphs |-> "Void"]
  /\ v_nGraphs = 0
  /\ v_op = [name |-> "new", arg |-> 0, issued |-> NoSeek, ret |-> "Unit"]
  /\ v_source = <<NoDuration, <<0, 0>>>>

\* no export call made yet
ExportInit ==
  /\ e_pc = "idle"
  /\ e_fn = "none"
  /\ e_tool = FALSE
  /\ e_gst = "Void"
  /\ e_msg = [kind |-> "none", text |-> 0, debug |-> 0]
  /\ e_ret = [kind |-> "none", text |-> 0, debug |-> 0]
  /\ e_progress = <<>>
  /\ e_seen = {}

\* export_multiple_clips has not been entered
LinkInit ==
  /\ l_pc = "idle"
  /\ decoder = [i \in 1..NumClips |-> [streams |-> <<>>, exposed |-> 0]]
  /\ video_concat = <<>>
  /\ audio_concat = <<>>
  /\ project_audio = FALSE

\* no worker thread, join() has returned nothing yet
NoWorker == [pc |-> "none", path |-> 0]
NoJoin == [kind |-> "none", val |-> 0]

\* MainView::new: nothing shown, the main thread in its event loop
UIInit ==
  /\ main_pc = "events"
  /\ prompts = 0
  /\ worker = NoWorker
  /\ join_result = NoJoin
  /\ last_agent_message = "None"
  /\ last_agent_results = <<>>
  /\ video_player = "None"

\* Project::new: no clips; nothing applied yet
ProjectInit ==
  /\ project_clips = <<>>
  /\ clock = 0
  /\ results = <<>>

\* f64 values: finite ones by their number, and the ones that are not
\* (NaN, the infinities)
NotFinite == [finite |-> FALSE, val |-> 0]
F64 == [finite : {TRUE}, val : {0, 30}] \cup {NotFinite}
\* Option<f64>, None the record without value
NoF64 == [some |-> FALSE, f |-> NotFinite]
OptionF64 == {NoF64} \cup [some : {TRUE}, f : F64]
\* PathBuf: a text, or bytes that are no UTF-8
PathBufs == [utf8 : BOOLEAN, text : {"a.mp4"}]
NoAudio == [some |-> FALSE, path |-> [utf8 |-> TRUE, text |-> "a.mp4"],
            duration |-> NoF64]
AudioTracks == {NoAudio} \cup [some : {TRUE}, path : PathBufs, duration : OptionF64]
SavedClips == [id : {"clip_0"}, path : PathBufs, duration : OptionF64]
ClipLists ==
  UNION {[1..n -> SavedClips] : n \in 0..MaxSavedClips}
\* the fields of Project the round trip is about (project.rs 6-26)
Projects ==
  [name : {"Test Project", ""}, position : F64, audio : AudioTracks,
   clips : ClipLists]

NoJson == [kind |-> "none"]

\* Project::default() before any round trip
RoundtripInit ==
  /\ rt_pc = "project"
  /\ rt_project = [name |-> "", position |-> [finite |-> TRUE, val |-> 0],
                   audio |-> NoAudio, clips |-> <<>>]
  /\ rt_json = NoJson
  /\ rt_loaded = NoJson

\* no graph has been built: the decoder exists once a load or an export has
\* made it
PadInit ==
  /\ g_pc = "unbuilt"
  /\ g_graph = "none"
  /\ g_streams = <<>>
  /\ g_exposed = <<>>
  /\ g_links = {}
  /\ g_requested = [video |-> 0, audio |-> 0]
  /\ g_failed = {}

\* Timeline::new (waveform.rs 165-170): not playing, at the start, no timer
TimelineInit ==
  /\ t_playing = FALSE
  /\ t_position = 0
  /\ t_waiting = 0
  /\ t_fired = 0
  /\ t_advanced = 0

\* AppConfig::default(): no last project, no recent projects (0: None)
ConfigInit ==
  /\ last_project = 0
  /\ recent_projects = <<>>
  /\ config_saved = FALSE
  /\ opened = 0
  /\ reopens = 0

Init ==
  /\ PlayerInit
  /\ VideoInit
  /\ ExportInit
  /\ LinkInit
  /\ UIInit
  /\ ProjectInit
  /\ ConfigInit
  /\ RoundtripInit
  /\ PadInit
  /\ TimelineInit

\* ------------------------------------------------- ProjectPlayer: stop
\* the pipeline is dropped without being set to Null
StopPipeline_skip == UNCHANGED <<gst, nullCalls>>

\* pipeline.set_state(gst::State::Null) on the held graph (player.rs 350-352):
\* returns once the streaming thread is out of the callback
StopPipeline ==
  IF pipeline # 0
    THEN /\ cb_pc = "idle"
         /\ gst' = [gst EXCEPT ![pipeline] = "Null"]
         /\ nullCalls' = [nullCalls EXCEPT ![pipeline] = @ + 1]
    ELSE UNCHANGED <<gst, nullCalls>>

\* first half of stop(), entered from stop(), load_project() or drop()
StopNull(who) ==
  /\ ui_pc = "idle"
  /\ who = "load" => nGraphs < MaxGraphs
  /\ StopPipeline
  /\ ui_pc' = "stop_clear"
  /\ call' = who
  /\ UNCHANGED <<pipeline, state, duration, probe, current_frame, lock, nGraphs, bus,
                 cb_pc, cb_frame, op, snap, lastStored, unread, overwrote>>

\* stop() that forgets `self.pipeline = None`
StopClear_keep ==
  /\ ui_pc = "stop_clear"
  /\ TryLock("ui")
  /\ state' = "Stopped"
  /\ current_frame' = NoneFrame
  /\ bus' = "none"
  /\ lastStored' = 0
  /\ unread' = FALSE
  /\ overwrote' = FALSE
  /\ ui_pc' = CASE call = "load" -> "load_build"
                [] call = "drop" -> "dropped"
                [] OTHER -> "idle"
  /\ op' = IF call = "stop" THEN Op("stop", 0, NoSeek, "Unit") ELSE op
  /\ UNCHANGED <<pipeline, duration, probe, lock, gst, nullCalls, nGraphs, cb_pc,
                 cb_frame, call, snap>>

\* second half of stop() (player.rs 353-355)
StopClear ==
  /\ ui_pc = "stop_clear"
  /\ TryLock("ui")
  /\ pipeline' = 0
  /\ probe' = NoProbe
  /\ state' = "Stopped"
  /\ current_frame' = NoneFrame
  /\ bus' = "none"
  /\ lastStored' = 0
  /\ unread' = FALSE
  /\ overwrote' = FALSE
  /\ ui_pc' = CASE call = "load" -> "load_build"
                [] call = "drop" -> "dropped"
                [] OTHER -> "idle"
  /\ op' = IF call = "stop" THEN Op("stop", 0, NoSeek, "Unit") ELSE op
  /\ UNCHANGED <<duration, lock, gst, nullCalls, nGraphs, cb_pc, cb_frame,
                 call, snap>>

stop == StopNull("stop")

drop == StopNull("drop")

\* ----------------------------------------- ProjectPlayer: load_project
\* what query_duration answers on a graph whose stream is len ticks long
QueryDuration(len, answered) == IF answered THEN len ELSE NoDuration

\* build_pipeline succeeded (player.rs 98-112): set_state(Paused), the wait
\* for the preroll, whose result (reached or timed out after 5 s) is thrown
\* away, the duration query, which answers or not, and the install
BuildOk(b) ==
  /\ nGraphs' = nGraphs + 1
  /\ gst' = [gst EXCEPT ![nGraphs + 1] = "Paused"]
  /\ duration' = IF QueryDuration(b.len, b.answered) = NoDuration
                   THEN duration
                   ELSE QueryDuration(b.len, b.answered)
  /\ probe' = b
  /\ pipeline' = nGraphs + 1
  /\ state' = "Paused"
  /\ op' = Op("load", 1, NoSeek, "Ok")

\* where a failed change of state leaves a pipeline that was in Null: in Null
\* when the step to Ready failed, in Ready when the step to Paused failed
FailedStart == {"Null", "Ready"}

\* set_state(Paused)? failed: the graph is dropped as the failed change of
\* state left it (player.rs 99)
BuildStartErr(left) ==
  /\ nGraphs' = nGraphs + 1
  /\ gst' = [gst EXCEPT ![nGraphs + 1] = left]
  /\ op' = Op("load", 1, NoSeek, "Err")
  /\ UNCHANGED <<pipeline, state, duration, probe>>

\* an element, a link or canonicalize failed before the start, while the
\* pipeline was still in Null (player.rs 91-96)
BuildErr ==
  /\ op' = Op("load", 1, NoSeek, "Err")
  /\ UNCHANGED <<pipeline, state, duration, probe, gst, nGraphs>>

\* no video clip in the project (player.rs 70-73)
NoVideoClips ==
  /\ op' = Op("load", 0, NoSeek, "Ok")
  /\ UNCHANGED <<pipeline, state, duration, probe, gst, nGraphs>>

load_project == StopNull("load")

\* the rest of load_project after its stop(), on a project whose graph
\* would show one of the probes of B
LoadBuildOf(B) ==
  /\ ui_pc = "load_build"
  /\ \/ NoVideoClips
     \/ BuildErr
     \/ \E left \in FailedStart : BuildStartErr(left)
     \/ \E b \in B : BuildOk(b)
  /\ ui_pc' = "idle"
  /\ UNCHANGED <<current_frame, lock, nullCalls, bus, cb_pc, cb_frame, call,
                 snap, lastStored, unread, overwrote>>

\* load_project of a project whose graph prerolls and knows its duration
LoadBuild == LoadBuildOf(PrerolledProbes)

\* load_project of any project
LoadBuildAny == LoadBuildOf(Probes)

\* ------------------------------------ ProjectPlayer: play, pause, seek
\* play() that sets the state without looking at the pipeline
play_unguarded ==
  /\ ui_pc = "idle"
  /\ IF pipeline # 0
       THEN gst' = [gst EXCEPT ![pipeline] = "Playing"]
       ELSE gst' = gst
  /\ state' = "Playing"
  /\ op' = Op("play", 0, NoSeek, "Unit")
  /\ UNCHANGED <<pipeline, duration, probe, current_frame, lock, nullCalls, nGraphs,
                 bus, cb_pc, cb_frame, ui_pc, call, snap, lastStored, unread,
                 overwrote>>

\* play() that also empties the frame slot
play_clearing ==
  /\ ui_pc = "idle"
  /\ TryLock("ui")
  /\ IF pipeline # 0
       THEN /\ gst' = [gst EXCEPT ![pipeline] = "Playing"]
            /\ state' = "Playing"
            /\ current_frame' = NoneFrame
       ELSE UNCHANGED <<gst, state, current_frame>>
  /\ op' = Op("play", 0, NoSeek, "Unit")
  /\ UNCHANGED <<pipeline, duration, probe, lock, nullCalls, nGraphs, bus, cb_pc,
                 cb_frame, ui_pc, call, snap, lastStored, unread, overwrote>>

play ==
  /\ ui_pc = "idle"
  /\ IF pipeline # 0
       THEN /\ gst' = [gst EXCEPT ![pipeline] = "Playing"]
            /\ state' = "Playing"
       ELSE UNCHANGED <<gst, state>>
  /\ op' = Op("play", 0, NoSeek, "Unit")
  /\ UNCHANGED <<pipeline, duration, probe, current_frame, lock, nullCalls, nGraphs,
                 bus, cb_pc, cb_frame, ui_pc, call, snap, lastStored, unread,
                 overwrote>>

\* pause() that sets the state without looking for a pipeline
pause_unguarded ==
  /\ ui_pc = "idle"
  /\ gst' = IF pipeline # 0 THEN [gst EXCEPT ![pipeline] = "Paused"] ELSE gst
  /\ state' = "Paused"
  /\ op' = Op("pause", 0, NoSeek, "Unit")
  /\ UNCHANGED <<pipeline, duration, probe, current_frame, lock, nullCalls, nGraphs,
                 bus, cb_pc, cb_frame, ui_pc, call, snap, lastStored, unread,
                 overwrote>>

pause ==
  /\ ui_pc = "idle"
  /\ IF pipeline # 0
       THEN /\ gst' = [gst EXCEPT ![pipeline] = "Paused"]
            /\ state' = "Paused"
       ELSE UNCHANGED <<gst, state>>
  /\ op' = Op("pause", 0, NoSeek, "Unit")
  /\ UNCHANGED <<pipeline, duration, probe, current_frame, lock, nullCalls, nGraphs,
                 bus, cb_pc, cb_frame, ui_pc, call, snap, lastStored, unread,
                 overwrote>>

\* seek() that computes and hands over a position without a pipeline
seek_unguarded(p) ==
  /\ ui_pc = "idle"
  /\ op' = Op("seek", p, SeekPositionNs(p, duration), "Unit")
  /\ bus' = IF bus = "eos" THEN "none" ELSE bus
  /\ UNCHANGED <<pipeline, state, duration, probe, current_frame, lock, gst,
                 nullCalls, nGraphs, cb_pc, cb_frame, ui_pc, call, snap,
                 lastStored, unread, overwrote>>

seek(p) ==
  /\ ui_pc = "idle"
  /\ IF pipeline # 0
       THEN /\ op' = Op("seek", p, SeekPositionNs(p, duration), "Unit")
            /\ bus' = IF bus = "eos" THEN "none" ELSE bus
       ELSE /\ op' = Op("seek", p, NoSeek, "Unit")
            /\ bus' = bus
  /\ UNCHANGED <<pipeline, state, duration, probe, current_frame, lock, gst,
                 nullCalls, nGraphs, cb_pc, cb_frame, ui_pc, call, snap,
                 lastStored, unread, overwrote>>

\* ------------------------------------- ProjectPlayer: get_position()
\* query_position on the held graph gave no answer
NoPosition == 0 - 1

\* get_position (player.rs 370-378): the numerator of the value returned,
\* which is pos over the cached duration d, or 0.0
GetPosition(held, pq, d) ==
  IF held # 0 /\ pq # NoPosition /\ d > 0 THEN pq ELSE 0

\* the held graph answers the position query with nothing, with the start or
\* with the end of its stream
get_position(pq) ==
  /\ ui_pc = "idle"
  /\ pq \in {NoPosition, 0, probe.len}
  /\ op' = Op("get_position", GetPosition(pipeline, pq, duration), NoSeek, "F64")
  /\ UNCHANGED <<pipeline, state, duration, probe, current_frame, lock, gst,
                 nullCalls, nGraphs, bus, cb_pc, cb_frame, ui_pc, call, snap,
                 lastStored, unread, overwrote>>

\* ------------------------------------- ProjectPlayer: current_frame()
\* lock, then clone the Option<Frame> (player.rs 381-383)
ReadLock ==
  /\ ui_pc = "idle"
  /\ TryLock("ui")
  /\ lock' = "ui"
  /\ ui_pc' = "reading"
  /\ snap' = [NoneFrame EXCEPT !.some = current_frame.some,
                               !.data = current_frame.data]
  /\ UNCHANGED <<pipeline, state, duration, probe, current_frame, gst, nullCalls,
                 nGraphs, bus, cb_pc, cb_frame, call, op, lastStored, unread,
                 overwrote>>

ReadClone ==
  /\ ui_pc = "reading"
  /\ snap' = [snap EXCEPT !.width = current_frame.width,
                          !.height = current_frame.height]
  /\ lock' = "free"
  /\ ui_pc' = "idle"
  /\ unread' = FALSE
  /\ op' = Op("current_frame", 0, NoSeek, "Frame")
  /\ UNCHANGED <<pipeline, state, duration, probe, current_frame, gst, nullCalls,
                 nGraphs, bus, cb_pc, cb_frame, call, lastStored, overwrote>>

\* ------------------------------------------- the new_sample callback
\* a graph is streaming samples into its appsink
Streaming == bus = "none" /\ \E g \in Graphs : gst[g] = "Playing"

\* pull the sample and build the Frame (player.rs 205-218)
CbBuild(s) ==
  /\ cb_pc = "idle"
  /\ Streaming
  /\ cb_pc' = "built"
  /\ cb_frame' = s
  /\ UNCHANGED <<pipeline, state, duration, probe, current_frame, lock, gst,
                 nullCalls, nGraphs, bus, ui_pc, call, op, snap, lastStored,
                 unread, overwrote>>

\* one of the `?` of the callback returns FlowError::Error (player.rs 205-212)
CbFail ==
  /\ cb_pc = "idle"
  /\ Streaming
  /\ bus' = "error"
  /\ UNCHANGED <<pipeline, state, duration, probe, current_frame, lock, gst,
                 nullCalls, nGraphs, cb_pc, cb_frame, ui_pc, call, op, snap,
                 lastStored, unread, overwrote>>

\* a slot that keeps the frame it holds until it is taken
Stored_first(old, new) == IF old.some THEN old ELSE new

\* what `*slot = Some(frame)` leaves in the slot (player.rs 220)
Stored(old, new) == new

\* *frame_ref.lock().unwrap() = Some(frame): the lock is taken and the first
\* half of the new value is moved into the slot
CbLock ==
  /\ cb_pc = "built"
  /\ TryLock("cb")
  /\ lock' = "cb"
  /\ cb_pc' = "storing"
  /\ LET w == Stored(current_frame, FrameOf(cb_frame))
     IN /\ current_frame' = [current_frame EXCEPT !.some = w.some,
                                                  !.data = w.data]
        /\ cb_frame' = w.data
  /\ lastStored' = cb_frame
  /\ overwrote' = (overwrote \/ unread)
  /\ unread' = TRUE
  /\ UNCHANGED <<pipeline, state, duration, probe, gst, nullCalls, nGraphs, bus,
                 ui_pc, call, op, snap>>

\* the second half is moved, the guard dropped, Ok returned (player.rs 220-222)
CbStore ==
  /\ cb_pc = "storing"
  /\ current_frame' = [current_frame EXCEPT !.width = FrameOf(cb_frame).width,
                                            !.height = FrameOf(cb_frame).height]
  /\ lock' = "free"
  /\ cb_pc' = "idle"
  /\ cb_frame' = 0
  /\ UNCHANGED <<pipeline, state, duration, probe, gst, nullCalls, nGraphs, bus,
                 ui_pc, call, op, snap, lastStored, unread, overwrote>>

\* --------------------------------------------- the pipeline's own events
PipelineEos ==
  /\ pipeline # 0
  /\ gst[pipeline] = "Playing"
  /\ bus = "none"
  /\ bus' = "eos"
  /\ UNCHANGED <<pipeline, state, duration, probe, current_frame, lock, gst,
                 nullCalls, nGraphs, cb_pc, cb_frame, ui_pc, call, op, snap,
                 lastStored, unread, overwrote>>

PipelineError ==
  /\ pipeline # 0
  /\ gst[pipeline] \in {"Paused", "Playing"}
  /\ bus # "error"
  /\ bus' = "error"
  /\ UNCHANGED <<pipeline, state, duration, probe, current_frame, lock, gst,
                 nullCalls, nGraphs, cb_pc, cb_frame, ui_pc, call, op, snap,
                 lastStored, unread, overwrote>>

PlayerNext ==
  \/ load_project
  \/ LoadBuild
  \/ stop
  \/ drop
  \/ StopClear
  \/ play
  \/ pause
  \/ \E p \in Positions : seek(p)
  \/ ReadLock
  \/ ReadClone
  \/ \E s \in Samples : CbBuild(s)
  \/ CbFail
  \/ CbLock
  \/ CbStore
  \/ PipelineEos
  \/ PipelineError

Next == PlayerNext /\ UNCHANGED <<vvars, evars, lvars, uvars, jvars, cvars, rvars, gvars, tvars>>

\* the caller's thread and the pipelines' threads, on projects that preroll
Spec == Init /\ [][Next]_vars

\* the caller's thread alone, on every kind of project
MetaNext ==
  /\ \/ load_project
     \/ LoadBuildAny
     \/ stop
     \/ drop
     \/ StopClear
     \/ play
     \/ pause
     \/ \E p \in Positions : seek(p)
     \/ \E pq \in {NoPosition} \cup Durations : get_position(pq)
  /\ UNCHANGED <<vvars, evars, lvars, uvars, jvars, cvars, rvars, gvars, tvars>>

SpecMeta == Init /\ [][MetaNext]_vars

\* ============================================================ VideoPlayer
\* what uridecodebin finds in a file: its duration in ticks and its encoded
\* size; NoDuration / <<0, 0>> when the preroll timed out before they were known
SourceSizes == {<<640, 480>>, <<1920, 1080>>}
NoCaps == <<0, 0>>

\* gst::ClockTime::seconds(): whole seconds (video.rs 152)
WholeSeconds(ns) == ns \div NsPerSec

\* VideoPlayer::seek: (position * self.duration * 1e9) as u64 (video.rs 171)
VideoSeekPositionNs(p, secs) == AsU64((p * secs * NsPerSec) \div PosDen)

\* VideoPlayer::load succeeded (video.rs 145-165); the pipeline held before,
\* if any, is dropped as it is
VLoadOk(dq, caps) ==
  /\ v_nGraphs < MaxGraphs
  /\ v_nGraphs' = v_nGraphs + 1
  /\ v_gst' = [v_gst EXCEPT ![v_nGraphs + 1] = "Paused"]
  /\ v_duration' = IF dq = NoDuration THEN v_duration ELSE WholeSeconds(dq)
  /\ v_dims' = IF caps = NoCaps THEN v_dims ELSE caps
  /\ v_pipeline' = v_nGraphs + 1
  /\ v_source' = <<dq, caps>>
  /\ v_op' = [name |-> "load", arg |-> 0, issued |-> NoSeek, ret |-> "Ok"]

\* set_state(Paused)? failed (video.rs 146)
VLoadStartErr(left) ==
  /\ v_nGraphs < MaxGraphs
  /\ v_nGraphs' = v_nGraphs + 1
  /\ v_gst' = [v_gst EXCEPT ![v_nGraphs + 1] = left]
  /\ v_op' = [name |-> "load", arg |-> 0, issued |-> NoSeek, ret |-> "Err"]
  /\ UNCHANGED <<v_pipeline, v_duration, v_dims, v_source>>

\* canonicalize, an element or a link failed (video.rs 68-91)
VLoadErr ==
  /\ v_op' = [name |-> "load", arg |-> 0, issued |-> NoSeek, ret |-> "Err"]
  /\ UNCHANGED <<v_pipeline, v_duration, v_dims, v_gst, v_nGraphs, v_source>>

VLoad ==
  \/ VLoadErr
  \/ \E left \in FailedStart : VLoadStartErr(left)
  \/ \E dq \in Durations \cup {NoDuration}, caps \in SourceSizes \cup {NoCaps} :
       VLoadOk(dq, caps)

VSeek(p) ==
  /\ IF v_pipeline # 0
       THEN v_op' = [name |-> "seek", arg |-> p,
                     issued |-> VideoSeekPositionNs(p, v_duration),
                     ret |-> "Unit"]
       ELSE v_op' = [name |-> "seek", arg |-> p, issued |-> NoSeek,
                     ret |-> "Unit"]
  /\ UNCHANGED <<v_pipeline, v_duration, v_dims, v_gst, v_nGraphs, v_source>>

\* Drop for VideoPlayer (video.rs 195-201); a fresh player takes its place
VDrop ==
  /\ v_pipeline # 0
  /\ v_gst' = [v_gst EXCEPT ![v_pipeline] = "Null"]
  /\ v_pipeline' = 0
  /\ v_duration' = 0
  /\ v_dims' = <<1280, 720>>
  /\ v_source' = <<NoDuration, NoCaps>>
  /\ v_op' = [name |-> "new", arg |-> 0, issued |-> NoSeek, ret |-> "Unit"]
  /\ UNCHANGED v_nGraphs

VideoNext ==
  /\ \/ VLoad
     \/ \E p \in Positions : VSeek(p)
     \/ VDrop
  /\ UNCHANGED <<pvars, evars, lvars, uvars, jvars, cvars, rvars, gvars, tvars>>

SpecVideo == Init /\ [][VideoNext]_vars

\* ================================================================ export
MsgKinds == {"Eos", "Error", "Warning", "StateChanged", "Other"}
\* texts of a bus error and of its debug detail (0: no detail)
ErrTexts == 1..2
Debugs == 0..1
\* position and duration the pipeline reports to a query (ticks)
NoQuery == 0 - 1
Queried == {NoQuery} \cup (0..(NsPerSec \div 2))

\* a loop that gives up on a Warning as it does on an Error
MatchRunPipeline_warnfatal(kind) ==
  CASE kind = "Eos" -> "break"
    [] kind \in {"Error", "Warning"} -> "bail"
    [] OTHER -> "continue"

\* the match of run_pipeline's loop (export.rs 287-301)
MatchRunPipeline(kind) ==
  CASE kind = "Eos" -> "break"
    [] kind = "Error" -> "bail"
    [] OTHER -> "continue"

\* a loop that logs an Eos and goes on
MatchExportMultiple_eosignored(kind) ==
  CASE kind = "Error" -> "bail"
    [] OTHER -> "continue"

\* the match of export_multiple_clips' loop (export.rs 234-257)
MatchExportMultiple(kind) ==
  CASE kind = "Eos" -> "break"
    [] kind = "Error" -> "bail"
    [] kind = "StateChanged" -> "continue"
    [] OTHER -> "continue"

Match(kind) ==
  IF e_fn = "run_pipeline" THEN MatchRunPipeline(kind)
                           ELSE MatchExportMultiple(kind)

\* an error text without the debug detail
ExportError_nodetail(text, debug) == [kind |-> "Err", text |-> text, debug |-> 0]

\* "Export error: {} ({})" (export.rs 294-298, 241-245)
ExportError(text, debug) == [kind |-> "Err", text |-> text, debug |-> debug]

NoResult == [kind |-> "none", text |-> 0, debug |-> 0]

\* an export that hands the project to an external transcoder when one is
\* installed
ExportPath_adapter(n, tool) ==
  IF n = 0 THEN "none"
  ELSE IF tool THEN "adapter"
  ELSE IF n = 1 THEN "run_pipeline" ELSE "export_multiple_clips"

\* the function export_project hands the n video clips to (export.rs 51-63):
\* whether a transcoder program is installed on the machine (tool) is not
\* looked at
ExportPath(n, tool) ==
  IF n = 0 THEN "none"
  ELSE IF n = 1 THEN "run_pipeline" ELSE "export_multiple_clips"

\* export_project (export.rs 39-64): n video clips in the project, on a
\* machine where an external transcoder is installed or not (tool); the graph
\* is built and started ("ok"), or an element, a link, the parse or
\* canonicalize fails before anything is started ("build_err"), or
\* set_state(Playing)? fails and the pipeline is dropped as the failed change
\* of state left it (a member of FailedStart, export.rs 227, 280)
ExportStart(n, built, tool) ==
  /\ e_pc \in {"idle", "done"}
  /\ e_seen' = {}
  /\ e_progress' = <<>>
  /\ e_msg' = NoResult
  /\ e_tool' = tool
  /\ e_fn' = ExportPath(n, tool)
  /\ IF n = 0
       THEN /\ e_pc' = "done"
            /\ e_gst' = "Void"
            /\ e_ret' = [kind |-> "Err", text |-> 0, debug |-> 0]
       ELSE /\ IF built = "ok"
                 THEN /\ e_pc' = "loop"
                      /\ e_gst' = "Playing"
                      /\ e_ret' = NoResult
                 ELSE /\ e_pc' = "done"
                      /\ e_gst' = IF built \in FailedStart THEN built ELSE "Void"
                      /\ e_ret' = [kind |-> "Err", text |-> 0, debug |-> 0]
  /\ UNCHANGED <<pvars, vvars, lvars, uvars, jvars, cvars, rvars, gvars, tvars>>

\* the progress report at the end of the loop's body (export.rs 303-310)
Progress(hasCallback, dq, pq) ==
  IF hasCallback /\ dq # NoQuery /\ pq # NoQuery
    THEN <<pq, dq>>
    ELSE e_progress

\* one turn of the loop on the next bus message
ExportMessage(kind, text, debug, hasCallback, dq, pq) ==
  /\ e_pc = "loop"
  /\ e_msg' = [kind |-> kind, text |-> text, debug |-> debug]
  /\ CASE Match(kind) = "break" ->
            /\ e_gst' = "Null"
            /\ e_ret' = [kind |-> "Ok", text |-> 0, debug |-> 0]
            /\ e_pc' = "done"
            /\ UNCHANGED <<e_progress, e_seen>>
       [] Match(kind) = "bail" ->
            /\ e_gst' = "Null"
            /\ e_ret' = ExportError(text, debug)
            /\ e_pc' = "done"
            /\ UNCHANGED <<e_progress, e_seen>>
       [] OTHER ->
            /\ e_progress' = Progress(hasCallback, dq, pq)
            /\ e_seen' = e_seen \cup {kind}
            /\ UNCHANGED <<e_pc, e_gst, e_ret>>
  /\ UNCHANGED <<e_fn, e_tool, pvars, vvars, lvars, uvars, jvars, cvars, rvars, gvars, tvars>>

ExportNext ==
  \/ \E n \in 0..2, built \in {"ok", "build_err"} \cup FailedStart,
        tool \in BOOLEAN :
       ExportStart(n, built, tool)
  \/ \E kind \in MsgKinds, text \in ErrTexts, debug \in Debugs,
        hasCallback \in BOOLEAN, dq \in Queried, pq \in Queried :
       ExportMessage(kind, IF kind = "Error" THEN text ELSE 0,
                     IF kind = "Error" THEN debug ELSE 0, hasCallback, dq, pq)

SpecExport == Init /\ [][ExportNext]_vars

\* ============================================== export_multiple_clips
Clips == 1..NumClips

\* the streams uridecodebin finds in the file of a video clip, in the order in
\* which it exposes them as pads
Layouts == {<<"video">>, <<"video", "audio">>, <<"audio", "video">>,
            <<"video", "video">>, <<"video", "text">>}

\* what feeds audioconvert, the head of the audio encode chain: link_many
\* of audio_concat, audio_convert, ... (export.rs 180-183)
AudioChainSource == "audio_concat"

\* an export that decodes the first clip only
AddDecoders_firstonly(files, audio) ==
  /\ l_pc = "idle"
  /\ l_pc' = "running"
  /\ decoder' = [i \in Clips |->
                   [streams |-> IF i = 1 THEN files[i] ELSE <<>>, exposed |-> 0]]
  /\ video_concat' = <<>>
  /\ audio_concat' = <<>>
  /\ project_audio' = audio
  /\ UNCHANGED <<pvars, vvars, evars, uvars, jvars, cvars, rvars, gvars, tvars>>

\* export_project on a project of NumClips video clips, with a separate audio
\* track or not, which it does not look at (export.rs 45-63): one decoder per
\* clip is added to the pipeline and its pad-added handler connected
\* (export.rs 189-224)
AddDecoders(files, audio) ==
  /\ l_pc = "idle"
  /\ l_pc' = "running"
  /\ decoder' = [i \in Clips |-> [streams |-> files[i], exposed |-> 0]]
  /\ video_concat' = <<>>
  /\ audio_concat' = <<>>
  /\ project_audio' = audio
  /\ UNCHANGED <<pvars, vvars, evars, uvars, jvars, cvars, rvars, gvars, tvars>>

\* the inputs of the muxer: link_pads of video_queue to "video_%u" and of
\* audio_queue to "audio_%u" (export.rs 178, 184)
MuxerInputs ==
  <<[kind |-> "video", from |-> "video_queue"],
    [kind |-> "audio", from |-> "audio_queue"]>>

\* the concat the handler picks by the name of the pad's caps: "video/..",
\* "audio/..", or neither (export.rs 208-209, 215-216)
ConcatFor(name) ==
  CASE name = "video" -> "video_concat"
    [] name = "audio" -> "audio_concat"
    [] OTHER -> "none"

\* request_pad_simple("sink_%u") and pad.link(&sink_pad), whose failure is
\* logged and nothing more (export.rs 211-214, 218-221)
RequestAndLink(concat, i, name, linked) ==
  Append(concat, [clip |-> i, kind |-> name, linked |-> linked])

\* the pad-added handler of decoder i on its next pad; linked: whether
\* pad.link succeeds (export.rs 203-223)
pad_added(i, linked) ==
  /\ l_pc = "running"
  /\ decoder[i].exposed < Len(decoder[i].streams)
  /\ decoder' = [decoder EXCEPT ![i].exposed = @ + 1]
  /\ LET name == decoder[i].streams[decoder[i].exposed + 1]
     IN CASE ConcatFor(name) = "video_concat" ->
               /\ video_concat' = RequestAndLink(video_concat, i, name, linked)
               /\ UNCHANGED audio_concat
          [] ConcatFor(name) = "audio_concat" ->
               /\ audio_concat' = RequestAndLink(audio_concat, i, name, linked)
               /\ UNCHANGED video_concat
          [] OTHER ->
               /\ linked
               /\ UNCHANGED <<video_concat, audio_concat>>
  /\ UNCHANGED <<l_pc, project_audio, pvars, vvars, evars, uvars, jvars, cvars, rvars, gvars, tvars>>

LinkNext ==
  \/ \E files \in [Clips -> Layouts], audio \in BOOLEAN :
       AddDecoders(files, audio)
  \/ \E i \in Clips, linked \in BOOLEAN : pad_added(i, linked)

SpecLink == Init /\ [][LinkNext]_vars

\* ================================================================ MainView
\* the places the save prompt can give, and the messages shown to the user
\* (main.rs 408, 423, 443, 447, 451; the marks before the texts left out)
OutPaths == {"a.mp4", "b.mp4"}
NoClipsMessage == "No video clips to export. Add some videos first!"
StartingMessage == "Starting export..."
CompleteMessage == "Export complete!"
FailedMessage == "Export failed"
CrashedMessage == "Export crashed"

\* what join() gives: Ok(Ok(path)), Ok(Err(e)) or Err(_) when the worker
\* panicked (main.rs 431-439)
JoinResults ==
  [kind : {"Ok"}, val : OutPaths] \cup [kind : {"Err"}, val : ErrTexts]
     \cup {[kind |-> "Panic", val |-> 0]}

\* a report that shows a returned error as a crash
Report_errascrash(r) ==
  IF r.kind = "Ok"
    THEN [message |-> CompleteMessage, results |-> <<<<"Saved to: ", r.val>>>>]
    ELSE [message |-> CrashedMessage, results |-> <<>>]

\* the match on export_result (main.rs 441-455): format!("Saved to: {}", ..)
\* and format!("Error: {}", e) as the prefix and what is formatted
Report(r) ==
  CASE r.kind = "Ok" ->
         [message |-> CompleteMessage, results |-> <<<<"Saved to: ", r.val>>>>]
    [] r.kind = "Err" ->
         [message |-> FailedMessage, results |-> <<<<"Error: ", r.val>>>>]
    [] OTHER ->
         [message |-> CrashedMessage, results |-> <<>>]

\* start_export up to cx.spawn(..).detach() (main.rs 400-429) on a project
\* of n video clips: the task it spawns waits for the prompt
start_export(n) ==
  /\ main_pc = "events"
  /\ IF n = 0
       THEN /\ last_agent_message' = NoClipsMessage
            /\ UNCHANGED prompts
       ELSE /\ prompts < MaxPrompts
            /\ prompts' = prompts + 1
            /\ last_agent_message' = StartingMessage
  /\ last_agent_results' = <<>>
  /\ UNCHANGED <<main_pc, worker, join_result, video_player>>

\* the prompt is answered and the main thread polls the task (main.rs
\* 429-439): with no path chosen the task ends; with a path it spawns the
\* worker and calls join() on it
PromptAnswered(answer) ==
  /\ main_pc = "events"
  /\ prompts > 0
  /\ prompts' = prompts - 1
  /\ IF answer = "None"
       THEN UNCHANGED <<main_pc, worker>>
       ELSE /\ worker' = [pc |-> "running", path |-> answer]
            /\ main_pc' = "join"
  /\ UNCHANGED <<join_result, last_agent_message, last_agent_results,
                 video_player>>

\* the worker's closure ends: export_project returned, mapped to the output
\* path on Ok, or panicked (main.rs 431-439)
WorkerEnds(kind, text) ==
  /\ worker.pc = "running"
  /\ worker' = [worker EXCEPT !.pc = "finished"]
  /\ join_result' = CASE kind = "Ok" -> [kind |-> "Ok", val |-> worker.path]
                      [] kind = "Err" -> [kind |-> "Err", val |-> text]
                      [] OTHER -> [kind |-> "Panic", val |-> 0]
  /\ UNCHANGED <<main_pc, prompts, last_agent_message, last_agent_results,
                 video_player>>

\* join() returns and this.update shows the outcome (main.rs 439-456)
JoinReport ==
  /\ main_pc = "join"
  /\ worker.pc = "finished"
  /\ last_agent_message' = Report(join_result).message
  /\ last_agent_results' = Report(join_result).results
  /\ worker' = NoWorker
  /\ main_pc' = "events"
  /\ UNCHANGED <<prompts, join_result, video_player>>

\* load_video enters player.load(&path) (main.rs 666-668), which starts the
\* graph and waits up to 5 s for its preroll (video.rs 145-149)
load_video ==
  /\ main_pc = "events"
  /\ main_pc' = "load"
  /\ UNCHANGED <<prompts, worker, join_result, last_agent_message,
                 last_agent_results, video_player>>

\* player.load returns and load_video stores the player or the error
\* (main.rs 668-689)
LoadReturns(ok) ==
  /\ main_pc = "load"
  /\ main_pc' = "events"
  /\ video_player' = IF ok THEN "Some" ELSE video_player
  /\ UNCHANGED <<prompts, worker, join_result, last_agent_message,
                 last_agent_results>>

\* another command handled by the main thread: start_auto_video_generation
\* on a project without an audio clip (main.rs 462-474)
start_auto_video_generation ==
  /\ main_pc = "events"
  /\ last_agent_message' = "No audio clip found in project"
  /\ last_agent_results' = <<"Add an audio file first, then try again">>
  /\ UNCHANGED <<main_pc, prompts, worker, join_result, video_player>>

UINext ==
  /\ \/ \E n \in 0..2 : start_export(n)
     \/ \E answer \in OutPaths \cup {"None"} : PromptAnswered(answer)
     \/ \E kind \in {"Ok", "Err", "Panic"}, text \in ErrTexts :
          WorkerEnds(kind, text)
     \/ JoinReport
     \/ load_video
     \/ \E ok \in BOOLEAN : LoadReturns(ok)
     \/ start_auto_video_generation
  /\ UNCHANGED <<pvars, vvars, evars, lvars, jvars, cvars, rvars, gvars, tvars>>

\* the main thread and the export worker
SpecUI == Init /\ [][UINext]_vars

\* ================================================================= Project
\* descriptions as texts over a small alphabet with one upper-case letter
Descriptions == {<<"a">>, <<"A", "b">>}
\* the descriptions a MoveClip may name: the first is in both descriptions
\* once the case is lowered, the second in one of them
Queries == {<<"A">>, <<"b">>}

\* char::to_lowercase and str::to_lowercase
LowerChar(c) == IF c = "A" THEN "a" ELSE c
ToLowercase(t) == [k \in 1..Len(t) |-> LowerChar(t[k])]

\* str::contains
Contains(t, pat) ==
  \E k \in 0..(Len(t) - Len(pat)) : SubSeq(t, k + 1, k + Len(pat)) = pat

\* format!("clip_{}", millis) (project.rs 194-200)
ClipId(millis) == <<"clip_", millis>>

\* Vec::remove and Vec::insert, the index counted from 0
VecRemove(v, idx) == SubSeq(v, 1, idx) \o SubSeq(v, idx + 2, Len(v))
VecInsert(v, idx, x) == SubSeq(v, 1, idx) \o <<x>> \o SubSeq(v, idx + 1, Len(v))

\* the clock moves on by a millisecond
Tick ==
  /\ clock < MaxMillis
  /\ clock' = clock + 1
  /\ UNCHANGED <<project_clips, results>>

\* Project::add_clip (project.rs 189-225)
add_clip(description) ==
  /\ Len(project_clips) < MaxClips
  /\ project_clips' =
       Append(project_clips, [id |-> ClipId(clock), description |-> description])
  /\ UNCHANGED <<clock, results>>

\* the position of a MoveClip as the model gives it: a word, or (word "")
\* the decimal text of num
MoveWords == {"first", "last", "END", "x"}
MovePositions ==
  [word : MoveWords, num : {0}] \cup [word : {""}, num : 0..MaxClips]

\* str::to_lowercase on the words
LowerWord(w) == IF w = "END" THEN "end" ELSE w

\* s.parse::<usize>(): the number, or no number (-1) for a word
NoNumber == 0 - 1
ParseUsize(position) == IF position.word = "" THEN position.num ELSE NoNumber

\* a reading of the position that takes the number as an index from 0
NewPos_fromzero(position, len) ==
  IF LowerWord(position.word) \in {"first", "start", "beginning"} THEN 0
  ELSE IF LowerWord(position.word) \in {"last", "end"} THEN len
  ELSE IF ParseUsize(position) = NoNumber THEN len ELSE ParseUsize(position)

\* the match on position.to_lowercase() (agent.rs 252-256), len being the
\* length of the list after the clip was taken out
NewPos(position, len) ==
  IF \/ LowerWord(position.word) \in {"first", "start", "beginning"}
     \/ (position.word = "" /\ position.num = 1)
    THEN 0
  ELSE IF LowerWord(position.word) \in {"last", "end"} THEN len
  ELSE LET n == IF ParseUsize(position) = NoNumber
                  THEN len
                  ELSE ParseUsize(position)
       IN IF n = 0 THEN 0 ELSE n - 1

\* iter().position(..): the index from 1 of the first clip whose lower-cased
\* description contains the lower-cased text, 0 when there is none
FirstMatch(description) ==
  LET found == {k \in 1..Len(project_clips) :
                  Contains(ToLowercase(project_clips[k].description),
                           ToLowercase(description))}
  IN IF found = {} THEN 0 ELSE CHOOSE k \in found : \A m \in found : k <= m

\* apply_modifications on one MoveClip (agent.rs 247-264)
MoveClip(description, position) ==
  /\ LET idx == FirstMatch(description)
     IN IF idx # 0
          THEN LET clip == project_clips[idx]
                   rest == VecRemove(project_clips, idx - 1)
                   p == NewPos(position, Len(rest))
                   new_pos == IF p < Len(rest) THEN p ELSE Len(rest)
               IN /\ project_clips' = VecInsert(rest, new_pos, clip)
                  /\ results' = <<[kind |-> "Moved", description |-> description,
                                   position |-> new_pos + 1]>>
          ELSE /\ results' = <<[kind |-> "not found",
                                description |-> description, position |-> 0]>>
               /\ UNCHANGED project_clips
  /\ UNCHANGED clock

ProjectNext ==
  /\ \/ Tick
     \/ \E description \in Descriptions : add_clip(description)
     \/ \E description \in Queries, position \in MovePositions :
          MoveClip(description, position)
  /\ UNCHANGED <<pvars, vvars, evars, lvars, uvars, cvars, rvars, gvars, tvars>>

\* the clip list under add_clip and MoveClip
SpecProject == Init /\ [][ProjectNext]_vars

\* =============================================================== AppConfig
\* AppConfig::MAX_RECENT (config.rs 22)
MAX_RECENT == 10

\* the paths, numbered in the order in which the user opens them first
Paths == 1..NumPaths

\* Vec::retain(|p| p != &path) and Vec::truncate
Retain(v, path) == SelectSeq(v, LAMBDA p : p # path)
Truncate(v, len) == IF Len(v) > len THEN SubSeq(v, 1, len) ELSE v

\* a list that keeps the old entry of the path opened
RecentProjects_noretain(v, path) == Truncate(VecInsert(v, 0, path), MAX_RECENT)

\* recent_projects after set_last_project(path) (config.rs 57-64)
RecentProjects(v, path) ==
  Truncate(VecInsert(Retain(v, path), 0, path), MAX_RECENT)

\* AppConfig::set_last_project (config.rs 55-73): path is the next path never
\* opened before or one opened before; save() writes the file or fails,
\* which is logged and nothing more
set_last_project(path, saved) ==
  /\ IF path = opened + 1
       THEN /\ opened < NumPaths
            /\ opened' = opened + 1
            /\ UNCHANGED reopens
       ELSE /\ path \in 1..opened
            /\ reopens < MaxReopens
            /\ reopens' = reopens + 1
            /\ UNCHANGED opened
  /\ recent_projects' = RecentProjects(recent_projects, path)
  /\ last_project' = path
  /\ config_saved' = saved
  /\ UNCHANGED <<pvars, vvars, evars, lvars, uvars, jvars, rvars, gvars, tvars>>

ConfigNext == \E path \in Paths, saved \in BOOLEAN : set_last_project(path, saved)

\* the configuration under set_last_project, from the default
SpecConfig == Init /\ [][ConfigNext]_vars

\* ============================================================ Project JSON
\* serde_json on an f64: a number, or null when it is not finite
JsonF64(x) == IF x.finite THEN [t |-> "number", v |-> x.val] ELSE [t |-> "null", v |-> 0]
\* on an Option<f64>: None is null
JsonOptionF64(o) == IF o.some THEN JsonF64(o.f) ELSE [t |-> "null", v |-> 0]

\* Deserialize for f64: a number, anything else is an error
ReadF64(j) ==
  IF j.t = "number" THEN [ok |-> TRUE, x |-> [finite |-> TRUE, val |-> j.v]]
  ELSE [ok |-> FALSE, x |-> NotFinite]

\* Deserialize for Option<f64>: null is None
ReadOptionF64(j) ==
  IF j.t = "null" THEN NoF64 ELSE [some |-> TRUE, f |-> ReadF64(j).x]

\* Serialize for PathBuf fails on a path that is no UTF-8
Serializable(p) ==
  /\ p.audio.some => p.audio.path.utf8
  /\ \A k \in 1..Len(p.clips) : p.clips[k].path.utf8

\* serde_json::to_string_pretty(&project) (project.rs 162, 264)
to_string_pretty(p) ==
  IF Serializable(p)
    THEN [kind |-> "Ok",
          name |-> p.name,
          position |-> JsonF64(p.position),
          audio |-> [some |-> p.audio.some, path |-> p.audio.path,
                     duration |-> JsonOptionF64(p.audio.duration)],
          clips |-> [k \in 1..Len(p.clips) |->
                       [id |-> p.clips[k].id, path |-> p.clips[k].path,
                        duration |-> JsonOptionF64(p.clips[k].duration)]]]
    ELSE [kind |-> "Err"]

\* serde_json::from_str(&json) (project.rs 152, 265)
from_str(j) ==
  IF ReadF64(j.position).ok
    THEN [kind |-> "Ok",
          project |->
            [name |-> j.name,
             position |-> ReadF64(j.position).x,
             audio |-> [some |-> j.audio.some, path |-> j.audio.path,
                        duration |-> ReadOptionF64(j.audio.duration)],
             clips |-> [k \in 1..Len(j.clips) |->
                          [id |-> j.clips[k].id, path |-> j.clips[k].path,
                           duration |-> ReadOptionF64(j.clips[k].duration)]]]]
    ELSE [kind |-> "Err"]

\* the project is serialised
Serialise ==
  /\ rt_pc = "project"
  /\ rt_json' = to_string_pretty(rt_project)
  /\ rt_pc' = IF to_string_pretty(rt_project).kind = "Ok" THEN "json" ELSE "done"
  /\ UNCHANGED <<rt_project, rt_loaded>>

\* what was written is read back
Deserialise ==
  /\ rt_pc = "json"
  /\ rt_loaded' = from_str(rt_json)
  /\ rt_pc' = "done"
  /\ UNCHANGED <<rt_project, rt_json>>

RoundtripNext ==
  /\ \/ Serialise
     \/ Deserialise
  /\ UNCHANGED <<pvars, vvars, evars, lvars, uvars, jvars, cvars, gvars, tvars>>

\* a round trip of any project
RoundtripStart ==
  /\ PlayerInit
  /\ VideoInit
  /\ ExportInit
  /\ LinkInit
  /\ UIInit
  /\ ProjectInit
  /\ ConfigInit
  /\ PadInit
  /\ TimelineInit
  /\ rt_pc = "project"
  /\ rt_project \in Projects
  /\ rt_json = NoJson
  /\ rt_loaded = NoJson

SpecRoundtrip == RoundtripStart /\ [][RoundtripNext]_vars

\* ======================================================= ProjectPlayer
\* what a caller can observe of the player
Observed == <<pipeline, state, duration, current_frame, gst>>

C2_PlayPauseIdempotent ==
  [][ ((play /\ state = "Playing") \/ (pause /\ state = "Paused"))
        => UNCHANGED Observed ]_vars

\* play returned on a player that was already Playing and held a frame
C2_Witness ==
  /\ op.name = "play"
  /\ op.pre = "Playing"
  /\ state = "Playing"
  /\ current_frame.some

\* C4 as stated: seek without a pipeline returns NotReady, hands no position
\* to any pipeline and changes nothing.
C4_SeekReturnsNotReady ==
  (op.name = "seek" /\ pipeline = 0) =>
     (op.ret = "NotReady" /\ op.issued = NoSeek)

\* C4 amended: seek without a pipeline returns unit (there is no NotReady
\* result), hands no position to any pipeline and changes no player state.
C4_SeekWithoutPipeline ==
  [][ \A p \in Positions :
        (seek(p) /\ pipeline = 0) =>
           /\ op'.ret = "Unit"
           /\ op'.issued = NoSeek
           /\ UNCHANGED <<Observed, bus, nullCalls>> ]_vars

\* seek returned on a player whose graph had been stopped
C4_Witness ==
  /\ op.name = "seek"
  /\ pipeline = 0
  /\ gst[1] = "Null"
  /\ op.issued = NoSeek

\* C5: a stop() (or the stop of drop) that follows a stop() changes nothing:
\* no graph is set to Null by it, no graph is ever set to Null twice, and the
\* player stays as the first stop left it.
C5_SecondStopNoOp ==
  [][ /\ ((op.name = "stop" /\ (stop \/ drop)) \/
          (op.name = "stop" /\ pipeline = 0 /\ StopClear))
         => (UNCHANGED <<Observed, nullCalls>> /\ pipeline = 0
               /\ state = "Stopped" /\ current_frame = NoneFrame)
      /\ \A g \in Graphs : nullCalls'[g] <= 1
    ]_vars

\* a second stop returned after graph 1 had been set to Null once
C5_Witness ==
  /\ op.name = "stop"
  /\ op.afterStop
  /\ nullCalls[1] = 1
  /\ ui_pc = "idle"

\* C6: while the player holds no pipeline (stop has acted and no load has
\* succeeded since) the frame slot is empty, the streaming thread is outside
\* the callback and no graph is delivering samples.
C6_NoFrameAfterStop ==
  pipeline = 0 =>
     /\ current_frame = NoneFrame
     /\ cb_pc = "idle"
     /\ \A g \in Graphs : gst[g] # "Playing"

\* stop returned on a Playing player from which a frame had been read
C6_Witness ==
  /\ op.name = "stop"
  /\ op.pre = "Playing"
  /\ ui_pc = "idle"
  /\ pipeline = 0
  /\ snap.some
  /\ ~current_frame.some

\* a frame whose parts all come from one sample
Whole(f) == f = NoneFrame \/ \E s \in Samples : f = FrameOf(s)

\* C7: what current_frame() returns is None or a frame whose data, width and
\* height come from one sample.
C7_NoTornFrame == ui_pc # "reading" => Whole(snap)

\* the reader is in the middle of its clone while the callback holds the
\* frame of another sample
C7_Witness ==
  /\ ui_pc = "reading"
  /\ cb_pc = "built"
  /\ current_frame.some
  /\ cb_frame # current_frame.data

\* C8: outside the callback's store the slot holds exactly the last sample
\* the callback was given since the last stop (nothing when there was none),
\* and the callback can store as soon as the mutex is free, read or not.
C8_LastWriteWins ==
  /\ lock # "cb" =>
       current_frame = IF lastStored = 0 THEN NoneFrame ELSE FrameOf(lastStored)
  /\ (cb_pc = "built" /\ lock = "free") => ENABLED CbLock

\* a frame nobody had read was overwritten by the next one
C8_Witness ==
  /\ overwrote
  /\ unread
  /\ lock = "free"
  /\ lastStored = 2
  /\ current_frame = FrameOf(2)

\* C9 as stated: once the pipeline is at EOS the player's state is Stopped,
\* and once it has posted an Error the state is neither Playing nor Paused.
C9_StateFollowsBus ==
  /\ bus = "eos" => state = "Stopped"
  /\ bus = "error" => state \notin {"Playing", "Paused"}

\* ================================================================== seek
\* the ProjectPlayer half of C3: below 0 the position handed over is that of
\* seek(0), which is 0, and above 1 that of seek(1), the cached duration
C3_ProjectPlayerClamped ==
  (op.name = "seek" /\ pipeline # 0) =>
     /\ op.arg < 0 => op.issued = 0
     /\ op.arg = 0 => op.issued = 0
     /\ op.arg >= PosDen => op.issued = duration

\* C3 as stated: for ProjectPlayer::seek and for VideoPlayer::seek alike, a
\* position below 0 asks the pipeline for the position of seek(0), which is 0,
\* and a position above 1 for that of seek(1), the cached duration.
C3_SeekClamped ==
  /\ C3_ProjectPlayerClamped
  /\ (v_op.name = "seek" /\ v_pipeline # 0) =>
        /\ v_op.arg < 0 => v_op.issued = 0
        /\ v_op.arg > PosDen => v_op.issued = v_duration * NsPerSec

\* ================================================================ export
\* C10: the loop is left only on an Eos or an Error message; any other
\* message leaves the call running, the pipeline and the result untouched;
\* and what the call returns is decided by the message that ends the loop
\* alone, whatever was passed over before.
C10_LoopEndsOnEosOrError ==
  [][ e_pc = "loop" =>
        /\ e_pc' # "loop" => e_msg'.kind \in {"Eos", "Error"}
        /\ e_msg'.kind \notin {"Eos", "Error"} =>
             (e_pc' = "loop" /\ UNCHANGED <<e_ret, e_gst, e_fn>>)
        /\ e_pc' = "done" =>
             e_ret'.kind = IF e_msg'.kind = "Eos" THEN "Ok" ELSE "Err"
    ]_vars

\* run_pipeline returned success after a Warning, a StateChanged and another
\* message had gone by
C10_Witness ==
  /\ e_pc = "done"
  /\ e_fn = "run_pipeline"
  /\ e_ret.kind = "Ok"
  /\ e_seen = {"Warning", "StateChanged", "Other"}

\* a step that starts another export call
NewExport ==
  \E n \in 0..2, built \in {"ok", "build_err"} \cup FailedStart,
     tool \in BOOLEAN :
     ExportStart(n, built, tool)

\* C11: the turn of the loop that gets an Eos ends the call: the pipeline is
\* set to Null and the call returns Ok; once the call has returned no further
\* message is handled (nothing of the call changes until another export is
\* started).
C11_EosEndsExport ==
  [][ /\ (e_pc = "loop" /\ e_msg'.kind = "Eos") =>
           (e_pc' = "done" /\ e_gst' = "Null" /\ e_ret'.kind = "Ok")
      /\ (e_pc = "done" /\ e_msg.kind = "Eos" /\ ~NewExport) => UNCHANGED evars
    ]_vars

\* export_multiple_clips returned Ok on an Eos, its pipeline in Null
C11_Witness ==
  /\ e_pc = "done"
  /\ e_fn = "export_multiple_clips"
  /\ e_msg.kind = "Eos"
  /\ e_gst = "Null"
  /\ e_ret.kind = "Ok"
  /\ e_seen # {}

\* C12: the turn of the loop that gets an Error ends the call with an error
\* that carries the bus error's text and its debug detail, the pipeline set
\* to Null; the result of a call that has returned is never replaced and no
\* further message is handled.
C12_ErrorEndsExport ==
  [][ /\ (e_pc = "loop" /\ e_msg'.kind = "Error") =>
           /\ e_pc' = "done"
           /\ e_gst' = "Null"
           /\ e_ret' = [kind |-> "Err", text |-> e_msg'.text,
                        debug |-> e_msg'.debug]
      /\ (e_pc = "done" /\ e_msg.kind = "Error" /\ ~NewExport) => UNCHANGED evars
    ]_vars

\* run_pipeline returned the error of a bus Error that had a debug detail
C12_Witness ==
  /\ e_pc = "done"
  /\ e_fn = "run_pipeline"
  /\ e_msg.kind = "Error"
  /\ e_ret = [kind |-> "Err", text |-> 2, debug |-> 1]
  /\ e_gst = "Null"

\* C13 as stated: a value handed to the progress callback is position /
\* duration of a known duration and lies in [0,1].
C13_ProgressInUnitInterval ==
  e_progress # <<>> =>
     /\ e_progress[2] # NoQuery
     /\ e_progress[2] > 0
     /\ 0 <= e_progress[1]
     /\ e_progress[1] <= e_progress[2]

\* C14: a request on a project without a video clip is rejected and builds no
\* graph: load_project returns an error and leaves the player unloaded.
C14_NoClipsRejected ==
  (op.name = "load" /\ op.arg = 0) =>
     /\ op.ret = "Err"
     /\ pipeline = 0
     /\ state = "Stopped"

\* C14, the export half: export_project on a project without a video clip
\* returns an error and has built no pipeline.
C14_ExportRejectsNoClips ==
  (e_pc = "done" /\ e_fn = "none") => (e_ret.kind = "Err" /\ e_gst = "Void")

\* C15: when a load returns an error the player holds no pipeline, its state
\* is Stopped, and every pipeline that was created is in the Null state (or
\* was never started).
C15_NoGraphLeftBehind ==
  (op.name = "load" /\ op.ret = "Err") =>
     /\ pipeline = 0
     /\ state = "Stopped"
     /\ \A g \in Graphs : gst[g] \in {"Void", "Null"}

\* C16: a load whose preroll timed out still returns success and installs
\* the graph Paused; play, pause and seek act on that graph; and the duration
\* keeps its zero placeholder when the graph gave no answer to the query.
C16_PrerollTimeoutTolerated ==
  (ui_pc = "idle" /\ pipeline # 0 /\ ~probe.prerolled) =>
     /\ op.name = "load" =>
          (op.ret = "Ok" /\ state = "Paused" /\ gst[pipeline] = "Paused")
     /\ op.name = "play" => (state = "Playing" /\ gst[pipeline] = "Playing")
     /\ op.name = "pause" => (state = "Paused" /\ gst[pipeline] = "Paused")
     /\ op.name = "seek" => op.issued # NoSeek
     /\ ~probe.answered => duration = 0

\* C17: a VideoPlayer that holds the graph of a clip of positive duration,
\* whose preroll made duration and size known, reports a duration above 0
\* and the encoded size of the clip.
C17_DurationAndSizeOfSource ==
  (v_pipeline # 0 /\ v_source[1] > 0 /\ v_source[2] # NoCaps) =>
     /\ v_duration > 0
     /\ v_dims = v_source[2]

\* C18: while a graph is held the cached duration is what that graph answered
\* to the query made when it was built, and is the zero of a new player when
\* it gave no answer (a value other than these is one carried over from a
\* graph held before).
C18_DurationOfOwnGraph ==
  pipeline # 0 => duration = (IF probe.answered THEN probe.len ELSE 0)

\* C18, the cache: play, pause, seek and get_position leave the cached
\* duration as it is.
C18_DurationCached ==
  [][ (pipeline # 0 /\ pipeline' = pipeline) => duration' = duration ]_vars

\* C19: get_position returns a value in [0.0, 1.0] (its numerator lies
\* between 0 and the cached duration), and 0 when it was called with no graph
\* held (the state was Stopped) or the cached duration is 0.
C19_PositionInUnitInterval ==
  op.name = "get_position" =>
     /\ 0 <= op.arg
     /\ op.arg <= duration
     /\ (op.pre = "Stopped" \/ duration = 0) => op.arg = 0

\* every decoder has exposed all its pads
AllExposed ==
  /\ l_pc = "running"
  /\ \A i \in Clips : decoder[i].exposed = Len(decoder[i].streams)

\* the sink pads of a concat that are linked to a pad of clip i
LinksOf(concat, i) ==
  {k \in 1..Len(concat) : concat[k].clip = i /\ concat[k].linked}

\* no link has failed
AllLinked ==
  /\ \A k \in 1..Len(video_concat) : video_concat[k].linked
  /\ \A k \in 1..Len(audio_concat) : audio_concat[k].linked

\* C20: in a multi-clip export in which no link fails, once every decoder
\* has exposed its pads each clip is connected to the video concat exactly
\* once: none is missing, none is there twice.
C20_EachClipOnce ==
  (AllExposed /\ AllLinked) =>
     \A i \in Clips : Cardinality(LinksOf(video_concat, i)) = 1

\* the clips of the sink pads of a concat, in the order of the pads
ClipOrder(concat) == [k \in 1..Len(concat) |-> concat[k].clip]

\* a sequence of clips in the order of the project's clip list
InProjectOrder(s) == \A k \in 1..Len(s), m \in 1..Len(s) : k < m => s[k] <= s[m]

\* C21: once every decoder has exposed its pads (no link failing), the
\* inputs of the video concat and of the audio concat are in the order of the
\* project's clip list, whatever the order in which the pads were exposed.
C21_ConcatInProjectOrder ==
  (AllExposed /\ AllLinked) =>
     /\ InProjectOrder(ClipOrder(video_concat))
     /\ InProjectOrder(ClipOrder(audio_concat))

C24_VoiceoverFeedsAudio ==
  (l_pc = "running" /\ project_audio) =>
     /\ AudioChainSource = "voiceover"
     /\ \A i \in Clips : LinksOf(audio_concat, i) = {}

\* the functions of export.rs that build and run a graph of the program's own
InternalGraph == {"run_pipeline", "export_multiple_clips"}

C26_CallerNeverWritesState ==
  [][(LoadBuild \/ play \/ pause \/ StopClear) => state' = state]_vars

\* C28: a sample whose handling fails in the callback is swallowed: the
\* stored frame is left as it was and nothing fatal is posted on the
\* pipeline's bus, so that later samples are still captured
C28_SampleFailureSwallowed ==
  [][CbFail => (current_frame' = current_frame /\ bus' = bus)]_vars

\* C25: while an export or a video load is in progress the main thread is
\* never blocked waiting for it: it is in its event loop, able to handle
\* commands and events
C25_MainThreadNeverBlocked ==
  /\ worker.pc = "running" => main_pc = "events"
  /\ main_pc # "load"

\* C27: the step that reports a finished worker shows "Export complete" if
\* and only if export_project returned Ok, "Export failed" with the error
\* text if and only if it returned an error, "Export crashed" if and only
\* if the worker panicked; a finished worker is always being waited for, and
\* nothing else is shown before its report
C27_OutcomeReported ==
  [][/\ JoinReport =>
          /\ last_agent_message' \in
                {CompleteMessage, FailedMessage, CrashedMessage}
          /\ last_agent_message' = CompleteMessage <=> join_result.kind = "Ok"
          /\ last_agent_message' = FailedMessage <=> join_result.kind = "Err"
          /\ join_result.kind = "Err" =>
                last_agent_results' = <<<<"Error: ", join_result.val>>>>
          /\ last_agent_message' = CrashedMessage <=> join_result.kind = "Panic"
     /\ worker.pc = "finished" =>
          (main_pc = "join" /\ (JoinReport \/ UNCHANGED uvars))]_vars

\* a worker whose export returned an error has been reported as failed, with
\* the error text
C27_Witness ==
  /\ main_pc = "events"
  /\ worker = NoWorker
  /\ join_result.kind = "Err"
  /\ last_agent_message = FailedMessage
  /\ last_agent_results = <<<<"Error: ", join_result.val>>>>

\* C29: after any sequence of add_clip calls, several in the same
\* millisecond included, the clips of the project have pairwise distinct ids
C29_ClipIdsDistinct ==
  \A k \in 1..Len(project_clips), m \in 1..Len(project_clips) :
     k # m => project_clips[k].id # project_clips[m].id

\* where C30 says a MoveClip leaves the clip, counted from 1 (0: a position
\* the claim does not speak of), in a list of len clips
Target(position, len) ==
  CASE position.word = "" /\ position.num \in 1..len -> position.num
    [] LowerWord(position.word) = "first" -> 1
    [] LowerWord(position.word) = "last" -> len
    [] OTHER -> 0

\* C30: a MoveClip to the number n (1 <= n <= number of clips), to "first"
\* or to "last" leaves the matched clip at place n, 1 or the last, counted
\* from 1; the other clips keep their order, and the place given in the
\* result is the place the clip is at
C30_MoveClipPlaces ==
  [][\A description \in Queries, position \in MovePositions :
       LET idx == FirstMatch(description)
           t == Target(position, Len(project_clips))
       IN (/\ results' # <<>>
           /\ results'[1].description = description
           /\ t # 0
           /\ idx # 0
           /\ MoveClip(description, position)) =>
            /\ Len(project_clips') = Len(project_clips)
            /\ project_clips'[t] = project_clips[idx]
            /\ VecRemove(project_clips', t - 1) = VecRemove(project_clips, idx - 1)
            /\ results' = <<[kind |-> "Moved", description |-> description,
                             position |-> t]>>]_vars

\* the second of three clips was added last and moved there by number
C30_Witness ==
  /\ Len(project_clips) = 3
  /\ results # <<>>
  /\ results[1].kind = "Moved"
  /\ results[1].position = 2
  /\ project_clips[2].id = ClipId(1)
  /\ project_clips[1].id = ClipId(0)
  /\ project_clips[3].id = ClipId(0)
  /\ project_clips[2].description = <<"A", "b">>
  /\ results[1].description = <<"b">>

\* C31, of a state: recent_projects holds pairwise distinct paths, has at
\* most MAX_RECENT entries, and begins with last_project
C31_DistinctBounded ==
  /\ \A k \in 1..Len(recent_projects), m \in 1..Len(recent_projects) :
        k # m => recent_projects[k] # recent_projects[m]
  /\ Len(recent_projects) <= MAX_RECENT
  /\ last_project # 0 =>
        (recent_projects # <<>> /\ recent_projects[1] = last_project)
  /\ last_project = 0 => recent_projects = <<>>

\* C31, of a step: most recently opened first: the path opened goes to the
\* front and the others keep their order
C31_MostRecentFirst ==
  [][\A path \in Paths, saved \in BOOLEAN :
       set_last_project(path, saved) =>
         /\ recent_projects'[1] = path
         /\ \A k \in 2..Len(recent_projects') :
              \E m \in 1..Len(recent_projects) :
                 /\ recent_projects[m] = recent_projects'[k]
                 /\ k > 2 =>
                      \E n \in 1..(m - 1) :
                         recent_projects[n] = recent_projects'[k - 1]]_vars

\* C31: from the default config, after any sequence of set_last_project
\* calls recent_projects holds pairwise distinct paths, the most recently
\* opened first, has at most MAX_RECENT entries, and begins with last_project
C31_RecentProjects == []C31_DistinctBounded /\ C31_MostRecentFirst

\* a full list after an entry has been dropped off its end and a path from
\* the middle of the list has been opened again
C31_Witness ==
  /\ Len(recent_projects) = MAX_RECENT
  /\ opened = NumPaths
  /\ reopens = 1
  /\ last_project = 5
  /\ recent_projects[2] = NumPaths

C33_OnePadPerKind ==
  \A i \in Clips :
     /\ Cardinality(LinksOf(video_concat, i)) <= 1
     /\ Cardinality(LinksOf(audio_concat, i)) <= 1

\* the media kinds present in the file of clip i that the graph has a
\* target for
KindsPresent(i) ==
  {decoder[i].streams[k] : k \in 1..Len(decoder[i].streams)} \cap {"video", "audio"}

\* the concat of a kind as the graph has it
ConcatOf(kind) == IF kind = "video" THEN video_concat ELSE audio_concat

\* C36: in every graph whose decoders have exposed their pads without a
\* link failing, each linked decoder pad is linked to the concat of its own
\* kind, each clip's decoder feeds its target exactly once for each media
\* kind present, and the muxer has at most one video and one audio input
C36_OneTargetPerKind ==
  /\ \A k \in 1..Len(video_concat) : video_concat[k].kind = "video"
  /\ \A k \in 1..Len(audio_concat) : audio_concat[k].kind = "audio"
  /\ (AllExposed /\ AllLinked) =>
        \A i \in Clips : \A kind \in KindsPresent(i) :
           Cardinality(LinksOf(ConcatOf(kind), i)) = 1
  /\ \A kind \in {"video", "audio"} :
        Cardinality({k \in 1..Len(MuxerInputs) : MuxerInputs[k].kind = kind}) <= 1

\* ------------------------------------------------- pad-added handlers
\* The handler a graph connects to the pad-added signal of a uridecodebin,
\* followed for one decoder.  The decoder exposes one pad for each stream of
\* its file, in any order, each with its caps set.  A link and a request for
\* a sink pad either succeed or fail, as GStreamer decides.  A panic inside
\* the handler unwinds into GStreamer's streaming thread, which ends the
\* process.

\* streams of one file at most
MaxPads == 2

\* what the caps of a pad start with: "video/", "audio/" or anything else
PadKinds == {"video", "audio", "text"}

\* the graphs with a pad-added handler: VideoPlayer::load, ProjectPlayer's
\* build_single_clip_pipeline and build_concat_pipeline, and
\* export_multiple_clips
HandlerGraphs == {"video_player", "single", "concat", "export"}

PadLayouts == UNION {[1..n -> PadKinds] : n \in 1..MaxPads}

Exposed == {g_exposed[n] : n \in 1..Len(g_exposed)}

\* is_linked() of the static sink pad of a convert element
TargetLinked(target) == \E l \in g_links : l.target = target

\* VideoPlayer's handler links every pad, whatever its caps
VideoPlayerTarget_any(name) == "video"

\* `if name.starts_with("video/")` of VideoPlayer's handler (video.rs 108)
VideoPlayerTarget(name) == IF name = "video" THEN "video" ELSE "none"

\* the if / else-if chain of ProjectPlayer's handlers (player.rs 176, 183)
PreviewTarget(name) ==
  CASE name = "video" -> "video"
    [] name = "audio" -> "audio"
    [] OTHER -> "none"

\* pad.link(&sink_pad): the link is made, or the pad is left as it was
Link(k, target, link_ok) ==
  IF link_ok
    THEN /\ g_links' = g_links \cup {[pad |-> k, target |-> target]}
         /\ g_failed' = g_failed
    ELSE /\ g_links' = g_links
         /\ g_failed' = g_failed \cup {k}

\* concat.request_pad_simple("sink_%u")
Request(target) == g_requested' = [g_requested EXCEPT ![target] = @ + 1]

\* video.rs 95-112: nothing once the convert's sink pad is linked; a video
\* pad is linked and the result unwrapped
VideoPlayerPadAdded(k, link_ok) ==
  /\ IF TargetLinked("video") \/ VideoPlayerTarget(g_streams[k]) = "none"
       THEN UNCHANGED <<g_links, g_failed, g_pc>>
       ELSE /\ Link(k, "video", link_ok)
            /\ g_pc' = IF link_ok THEN g_pc ELSE "aborted"
  /\ UNCHANGED g_requested

\* player.rs 171-191: a video (audio) pad is linked to the video (audio)
\* convert unless that is linked already; the result of link is dropped
SinglePadAdded(k, link_ok) ==
  LET target == PreviewTarget(g_streams[k]) IN
  /\ IF target = "none" \/ TargetLinked(target)
       THEN UNCHANGED <<g_links, g_failed>>
       ELSE Link(k, target, link_ok)
  /\ UNCHANGED <<g_requested, g_pc>>

\* player.rs 283-299: a video (audio) pad is linked to a sink pad requested
\* on the video (audio) concat, if the request gave one; the result of link
\* is dropped
ConcatPadAdded(k, request_ok, link_ok) ==
  LET target == PreviewTarget(g_streams[k]) IN
  /\ IF target = "none"
       THEN UNCHANGED <<g_links, g_failed, g_requested>>
       ELSE IF request_ok
              THEN Request(target) /\ Link(k, target, link_ok)
              ELSE /\ g_failed' = g_failed \cup {k}
                   /\ UNCHANGED <<g_links, g_requested>>
  /\ UNCHANGED g_pc

\* export.rs 203-223: the request for a sink pad is unwrapped; a failed
\* link is logged
ExportPadAdded(k, request_ok, link_ok) ==
  LET concat == ConcatFor(g_streams[k])
      target == IF concat = "video_concat" THEN "video" ELSE "audio" IN
  IF concat = "none"
    THEN UNCHANGED <<g_links, g_failed, g_requested, g_pc>>
    ELSE IF request_ok
           THEN Request(target) /\ Link(k, target, link_ok) /\ UNCHANGED g_pc
           ELSE /\ g_failed' = g_failed \cup {k}
                /\ g_pc' = "aborted"
                /\ UNCHANGED <<g_links, g_requested>>

\* a graph is built around a uridecodebin for a file with the given streams
BuildDecoder(graph, streams) ==
  /\ g_pc = "unbuilt"
  /\ g_pc' = "running"
  /\ g_graph' = graph
  /\ g_streams' = streams
  /\ UNCHANGED <<g_exposed, g_links, g_requested, g_failed>>

\* the decoder exposes the pad of stream k and the graph's handler runs
PadAdded(k, request_ok, link_ok) ==
  /\ g_pc = "running"
  /\ k \in (1..Len(g_streams)) \ Exposed
  /\ g_exposed' = Append(g_exposed, k)
  /\ CASE g_graph = "video_player" -> VideoPlayerPadAdded(k, link_ok)
       [] g_graph = "single" -> SinglePadAdded(k, link_ok)
       [] g_graph = "concat" -> ConcatPadAdded(k, request_ok, link_ok)
       [] OTHER -> ExportPadAdded(k, request_ok, link_ok)
  /\ UNCHANGED <<g_graph, g_streams>>

PadNext ==
  /\ \/ \E graph \in HandlerGraphs, streams \in PadLayouts : BuildDecoder(graph, streams)
     \/ \E k \in 1..MaxPads, request_ok \in BOOLEAN, link_ok \in BOOLEAN :
           PadAdded(k, request_ok, link_ok)
  /\ UNCHANGED <<pvars, vvars, evars, lvars, uvars, jvars, cvars, rvars, tvars>>

\* the pad-added handlers alone
SpecPad == Init /\ [][PadNext]_vars

\* C34: whenever the request for a sink pad or the link fails for a newly
\* exposed pad, the handler returns and the process goes on running, the
\* pad is left unlinked and the links made before are all still there.
C34_FailureLeavesGraphRunning ==
  [][g_failed' # g_failed =>
        /\ g_pc' = "running"
        /\ g_links' = g_links]_vars

\* the graph has no target for a pad of this kind
NoTarget(graph, kind) ==
  kind = "text" \/ (graph = "video_player" /\ kind = "audio")

\* C35: a pad of a kind the graph has no target for (a subtitle pad in any
\* graph, an audio pad in VideoPlayer's graph) is never linked and never
\* ends the process, in whatever order the pads are exposed, and it does not
\* keep the video pad from its link: once every pad is exposed, a video pad
\* of the decoder is linked to the video target unless the request or the
\* link for a video pad itself failed.
C35_UntargetedPadsIgnored ==
  /\ \A l \in g_links : ~NoTarget(g_graph, g_streams[l.pad])
  /\ \A k \in g_failed : ~NoTarget(g_graph, g_streams[k])
  /\ g_pc = "aborted" => g_failed # {}
  /\ (Exposed = 1..Len(g_streams) /\ \E k \in Exposed : g_streams[k] = "video") =>
        \/ \E l \in g_links : l.target = "video" /\ g_streams[l.pad] = "video"
        \/ \E k \in g_failed : g_streams[k] = "video"

\* VideoPlayer's decoder exposed its audio pad first and its video pad
\* second: the audio pad is unlinked, the video pad feeds the convert
C35_Witness ==
  /\ g_graph = "video_player"
  /\ g_streams = <<"audio", "video">>
  /\ g_exposed = <<1, 2>>
  /\ g_links = {[pad |-> 2, target |-> "video"]}
  /\ g_failed = {}
  /\ g_pc = "running"

\* C37: a load on a VideoPlayer that holds a pipeline sets that pipeline to
\* Null, so that the player never has two pipelines outside Null: after a
\* successful load the pipeline held before it is in Null.
C37_LoadTearsDownPrevious ==
  [][(v_op'.name = "load" /\ v_op'.ret = "Ok" /\ v_pipeline # 0) =>
        v_gst'[v_pipeline] = "Null"]_vars

\* C38: is_loaded() is true exactly when state() is Paused or Playing: the
\* ProjectPlayer holds a pipeline exactly when its state is not Stopped,
\* after any sequence of load_project (successful, failed, or of a project
\* without video clips), play, pause, seek and stop.
C38_LoadedIffNotStopped ==
  (pipeline # 0) <=> (state \in {"Paused", "Playing"})

\* a player that held a pipeline has returned from load_project on a project
\* without video clips: no pipeline, Stopped
C38_Witness ==
  /\ ui_pc = "idle"
  /\ op = Op("load", 0, NoSeek, "Ok")
  /\ \E g \in 1..MaxGraphs : nullCalls[g] >= 1
  /\ pipeline = 0
  /\ state = "Stopped"

\* ------------------------------------------------- reordering the clips
\* clips in the list at the start of a sequence of reorderings
MaxReorder == 2

\* what stands for the clip list after an index out of bounds has ended the
\* process: one clip that is none of the project's
Panicked == <<[id |-> <<"panicked", 0>>, description |-> <<"panicked">>]>>

\* <[T]>::swap, the indices counted from 0: panics on an index out of bounds
VecSwap(v, a, b) ==
  IF a < Len(v) /\ b < Len(v)
    THEN [k \in 1..Len(v) |-> IF k = a + 1 THEN v[b + 1]
                              ELSE IF k = b + 1 THEN v[a + 1]
                              ELSE v[k]]
    ELSE Panicked

\* Option<String> of UpdateClip's id and old_description: None
NoText == <<>>

\* iter().position(|c| c.id == *id): the index from 1, 0 when there is none
PositionById(id) ==
  LET found == {k \in 1..Len(project_clips) : project_clips[k].id = id}
  IN IF found = {} THEN 0 ELSE CHOOSE k \in found : \A m \in found : k <= m

\* apply_modifications on one SwapClips (agent.rs 266-283)
SwapClips(clip1, clip2) ==
  /\ project_clips # Panicked
  /\ LET idx1 == FirstMatch(clip1)
         idx2 == FirstMatch(clip2)
     IN IF idx1 # 0 /\ idx2 # 0
          THEN /\ project_clips' = VecSwap(project_clips, idx1 - 1, idx2 - 1)
               /\ results' = <<[kind |-> "Swapped", clip1 |-> clip1,
                                clip2 |-> clip2]>>
          ELSE /\ results' = <<[kind |-> "Could not find both clips"]>>
               /\ UNCHANGED project_clips
  /\ UNCHANGED clock

\* the test of UpdateClip's loop on the clip at k (agent.rs 229-232)
UpdateMatches(k, id, old_description) ==
  \/ id # NoText /\ project_clips[k].id = id
  \/ /\ old_description # NoText
     /\ Contains(ToLowercase(project_clips[k].description),
                 ToLowercase(old_description))

\* apply_modifications on one UpdateClip (agent.rs 225-245): the first clip
\* that matches gets the new description
UpdateClip(id, old_description, new_description) ==
  /\ project_clips # Panicked
  /\ LET found == {k \in 1..Len(project_clips) :
                     UpdateMatches(k, id, old_description)}
     IN IF found # {}
          THEN LET k == CHOOSE k \in found : \A m \in found : k <= m
               IN /\ project_clips' =
                       [project_clips EXCEPT ![k].description = new_description]
                  /\ results' = <<[kind |-> "Updated",
                                   description |-> new_description]>>
          ELSE /\ results' = <<[kind |-> "No matching clip found to update"]>>
               /\ UNCHANGED project_clips
  /\ UNCHANGED clock

\* ClipsPanelEvent::MoveUp (main.rs 98-106)
MoveUp(id) ==
  /\ project_clips # Panicked
  /\ LET idx == PositionById(id) - 1
     IN IF PositionById(id) # 0 /\ idx > 0
          THEN project_clips' = VecSwap(project_clips, idx, idx - 1)
          ELSE UNCHANGED project_clips
  /\ UNCHANGED <<clock, results>>

\* MoveDown that takes the last index for one before the end
MoveDown_pastend(id) ==
  /\ project_clips # Panicked
  /\ LET idx == PositionById(id) - 1
     IN IF PositionById(id) # 0 /\ idx < Len(project_clips)
          THEN project_clips' = VecSwap(project_clips, idx, idx + 1)
          ELSE UNCHANGED project_clips
  /\ UNCHANGED <<clock, results>>

\* ClipsPanelEvent::MoveDown (main.rs 107-115)
MoveDown(id) ==
  /\ project_clips # Panicked
  /\ LET idx == PositionById(id) - 1
     IN IF PositionById(id) # 0 /\ idx < Len(project_clips) - 1
          THEN project_clips' = VecSwap(project_clips, idx, idx + 1)
          ELSE UNCHANGED project_clips
  /\ UNCHANGED <<clock, results>>

ClipIds == {ClipId(millis) : millis \in 0..MaxMillis}

\* the lists add_clip makes: the ids follow the clock
AddedLists ==
  {v \in UNION {[1..n -> [id : ClipIds, description : Descriptions]] :
                  n \in 0..MaxReorder} :
     \A k \in 1..(Len(v) - 1) : v[k].id[2] <= v[k + 1].id[2]}

ReorderNext ==
  /\ \/ \E description \in Queries, position \in MovePositions :
          project_clips # Panicked /\ MoveClip(description, position)
     \/ \E clip1 \in Queries, clip2 \in Queries : SwapClips(clip1, clip2)
     \/ \E id \in ClipIds \cup {NoText}, old_description \in Queries \cup {NoText},
           new_description \in Descriptions :
          UpdateClip(id, old_description, new_description)
     \/ \E id \in ClipIds : MoveUp(id)
     \/ \E id \in ClipIds : MoveDown(id)
  /\ UNCHANGED <<pvars, vvars, evars, lvars, uvars, cvars, rvars, gvars, tvars>>

\* a project with some clips, before a sequence of reorderings
ReorderStart ==
  /\ PlayerInit
  /\ VideoInit
  /\ ExportInit
  /\ LinkInit
  /\ UIInit
  /\ ConfigInit
  /\ RoundtripInit
  /\ PadInit
  /\ TimelineInit
  /\ project_clips \in AddedLists
  /\ clock = IF project_clips = <<>> THEN 0
             ELSE project_clips[Len(project_clips)].id[2]
  /\ results = <<>>

\* the reorderings of the agent and of the clips panel on any clip list
SpecReorder == ReorderStart /\ [][ReorderNext]_vars

\* how often x is in the list
Count(v, x) == Cardinality({k \in 1..Len(v) : v[k] = x})
Range(v) == {v[k] : k \in 1..Len(v)}
IdsOf(v) == [k \in 1..Len(v) |-> v[k].id]
SameBag(v, w) ==
  /\ Len(v) = Len(w)
  /\ \A x \in Range(v) \cup Range(w) : Count(v, x) = Count(w, x)

\* C39: every step of MoveClip, SwapClips, UpdateClip, MoveUp and MoveDown,
\* with any position and at any end of the list, leaves the list a
\* permutation of what it was: no index is out of bounds, the clips (by
\* their ids) are the same ones as often as before, and but for the
\* description an UpdateClip has just written they are the same records.
C39_ReorderingsPermute ==
  [][/\ project_clips' # Panicked
     /\ SameBag(IdsOf(project_clips), IdsOf(project_clips'))
     /\ (results' = <<>> \/ results'[1].kind # "Updated") =>
           SameBag(project_clips, project_clips')]_vars

\* two clips added in this order stand in the other order after a SwapClips
C39_Witness ==
  /\ Len(project_clips) = 2
  /\ project_clips[1].id = ClipId(1)
  /\ project_clips[2].id = ClipId(0)
  /\ results = <<[kind |-> "Swapped", clip1 |-> <<"A">>, clip2 |-> <<"b">>]>>

\* ================================================================ Timeline
\* The position is counted in steps of 0.05 s, the duration is DurationSteps
\* of them.  Every playback timer alive fires once in every interval of
\* 50 ms; a timer started in an interval fires first in the next one.  The
\* timers' updates and the click handlers all run on the main thread, one at
\* a time.

\* duration of the audio in steps
DurationSteps == 3

\* playback timers alive at most
MaxTimers == 3

\* Timeline::toggle_playback (waveform.rs 218-224) with
\* start_playback_timer's spawn
toggle_playback ==
  /\ t_playing' = ~t_playing
  /\ IF ~t_playing
       THEN /\ t_waiting + t_fired < MaxTimers
            /\ t_fired' = t_fired + 1
       ELSE UNCHANGED t_fired
  /\ UNCHANGED <<t_position, t_waiting, t_advanced>>

\* Timeline::seek on a click at a whole step (waveform.rs 172-174)
TimelineSeek(step) ==
  /\ t_position' = step
  /\ UNCHANGED <<t_playing, t_waiting, t_fired, t_advanced>>

\* one turn of a timer's loop after its 50 ms (waveform.rs 179-211): the
\* timer ends when the timeline is not playing or the end is reached
TimerFires ==
  /\ t_waiting > 0
  /\ t_waiting' = t_waiting - 1
  /\ IF ~t_playing
       THEN UNCHANGED <<t_playing, t_position, t_fired, t_advanced>>
       ELSE /\ t_advanced' = t_advanced + 1
            /\ IF t_position + 1 >= DurationSteps
                 THEN /\ t_position' = 0
                      /\ t_playing' = FALSE
                      /\ UNCHANGED t_fired
                 ELSE /\ t_position' = t_position + 1
                      /\ t_fired' = t_fired + 1
                      /\ UNCHANGED t_playing

\* 50 ms have passed: every timer alive has fired and is due again
IntervalEnds ==
  /\ t_waiting = 0
  /\ t_fired + t_advanced > 0
  /\ t_waiting' = t_fired
  /\ t_fired' = 0
  /\ t_advanced' = 0
  /\ UNCHANGED <<t_playing, t_position>>

TimelineNext ==
  /\ \/ toggle_playback
     \/ \E step \in 0..DurationSteps : TimelineSeek(step)
     \/ TimerFires
     \/ IntervalEnds
  /\ UNCHANGED <<pvars, vvars, evars, lvars, uvars, jvars, cvars, rvars, gvars>>

\* one Timeline and its playback timers
SpecTimeline == Init /\ [][TimelineNext]_vars

\* C40: at most one playback timer advances the position: under any
\* sequence of play/pause toggles the position advances by at most one step
\* of 0.05 s in an interval of 50 ms, stays within [0, duration], and does
\* not advance while the timeline is paused.
C40_OneStepPerInterval ==
  /\ t_advanced <= 1
  /\ t_position \in 0..DurationSteps

====
